---- MODULE Spec2Model ----
(***************************************************************************)
(* MedTrack (src/app.js): the IndexedDB storage class MedTrackStorage and  *)
(* the handlers of MedTrackApp that read and write it.                     *)
(*                                                                         *)
(* idb is the database (four object stores keyed by `id`), the other       *)
(* program variables are the fields of MedTrackApp and the rendered DOM.   *)
(* A handler runs from its event to its final render() as one step; the    *)
(* start-up sequence init()/loadData() is split at its awaits, because the *)
(* listeners are attached before loadData() runs.                          *)
(*                                                                         *)
(* Spec is the storage class and the handlers.  SpecBackup is the backup   *)
(* reminder over the settings store and a clock.  SpecRecurrence applies   *)
(* isScheduledOn(), the next-day scan and getRecurrenceText() to a         *)
(* medication and a date.                                                  *)
(***************************************************************************)
EXTENDS Integers, Sequences, FiniteSets, TLC

VARIABLES
    db,               \* MedTrackStorage.db is set (storage.init() resolved)
    idb,              \* the object stores: people, medications, doseLogs, settings
    pc,               \* position of MedTrackApp.init()
    pending,          \* result of the storage request init() is awaiting
    people,           \* MedTrackApp.people
    medications,      \* MedTrackApp.medications
    doseLogs,         \* MedTrackApp.doseLogs
    currentPersonId,  \* MedTrackApp.currentPersonId
    dom,              \* the elements the last render() created
    nextId,           \* number of ids generateId() has handed out
    ops,              \* number of events (handler runs, calls, reloads) so far
    emptyAtInit,      \* history: the people store was empty when init() opened it
    lastOp,           \* history: the last operation and its argument
    result,           \* history: how the last operation's storage call ended
    prevCount,        \* history: number of records idb held before the last operation
    repeat,           \* history: the last operation repeats the one before it
    now,              \* Date.now(), in milliseconds
    reminder,         \* the backup reminder's confirm() dialog is scheduled or open
    argMed,           \* the medication isScheduledOn and getRecurrenceText are given
    argDate,          \* the date they are given, as a day number
    dst,              \* clock shift between two local midnights, in milliseconds
    out               \* what the last evaluation returned

\* the variables of the storage class and the handlers; of the backup
\* reminder; of the recurrence evaluation
app == <<db, idb, pc, pending, people, medications, doseLogs, currentPersonId,
         dom, nextId, ops, emptyAtInit, lastOp, result, prevCount, repeat>>
clock == <<now, reminder>>
sched == <<argMed, argDate, dst, out>>

vars == <<db, idb, pc, pending, people, medications, doseLogs, currentPersonId,
          dom, nextId, ops, emptyAtInit, lastOp, result, prevCount, repeat,
          now, reminder, argMed, argDate, dst, out>>

-----------------------------------------------------------------------------
(* Bounds and values *)

\* a behaviour holds at most MaxOps events after construction: handler runs,
\* direct storage calls and page reloads (the steps of init() are not counted)
MaxOps == 3

\* currentPersonId null, and the empty data-log-id of an unchecked box
Null == 0
NoLog == 0

Names == {"Ann"}
SettingKeys == {"hasSeenWelcome"}

\* what the medication form can submit: schedule type and the time rows
FormInputs ==
    { [frequency |-> "scheduled", times |-> <<"20:00", "08:00">>],
      [frequency |-> "asneeded",  times |-> <<"08:00">>] }

Person(i, n) == [id |-> i, name |-> n]
Medication(i, p, f, t) == [id |-> i, personId |-> p, frequency |-> f, times |-> t]
\* a dose log that drops its scheduled time
DoseLogUntimed(i, m, s, ts) == [id |-> i, medicationId |-> m, scheduledTime |-> "null", timestamp |-> ts]
DoseLog(i, m, s, ts) == [id |-> i, medicationId |-> m, scheduledTime |-> s, timestamp |-> ts]
Setting(k, v) == [id |-> k, value |-> v]

\* a parsed backup document: its three arrays, and the names of the top-level
\* fields the document does not have (an absent field reads as undefined)
Doc(p, m, l, a) == [people |-> p, medications |-> m, doseLogs |-> l, absent |-> a]
Has(data, field) == field \notin data.absent

\* backup documents a user can pick in the import dialog
Snapshots ==
    { Doc(<<>>, <<>>, <<>>, {}),
      Doc(<<Person(11, "Ann")>>,
          <<Medication(12, 11, "scheduled", <<"20:00", "08:00">>)>>,
          <<DoseLog(13, 12, "08:00", 1)>>, {}),
      Doc(<<Person(11, "Ann"), Person(14, "Me")>>,
          <<Medication(12, 14, "asneeded", <<>>)>>,
          <<>>, {"doseLogs"}),
      Doc(<<Person(11, "Ann")>>,
          <<Medication(12, 15, "scheduled", <<"08:00">>)>>,
          <<>>, {}),
      Doc(<<Person(11, "Ann"), Person(11, "Me")>>, <<>>, <<>>, {}),
      Doc(<<Person(11, "Ann")>>,
          <<Medication(12, 11, "asneeded", <<>>),
            Medication(12, 11, "scheduled", <<"08:00">>)>>,
          <<>>, {}),
      Doc(<<Person(11, "Ann")>>,
          <<Medication(12, 11, "scheduled", <<"08:00">>)>>,
          <<DoseLog(13, 12, "08:00", 1), DoseLog(13, 12, "20:00", 1)>>, {}),
      Doc(<<>>, <<Medication(12, 11, "scheduled", <<"08:00">>)>>, <<>>, {"people"}),
      Doc(<<Person(11, "Ann")>>, <<>>, <<>>, {"medications"}) }

EmptyStore == <<>>
EmptyDb == [people |-> EmptyStore, medications |-> EmptyStore,
            doseLogs |-> EmptyStore, settings |-> EmptyStore]

-----------------------------------------------------------------------------
(* MedTrackStorage: the object-store primitives.  A store is a function    *)
(* from key to record.                                                     *)

Min(S) == CHOOSE x \in S : \A y \in S : x <= y

RECURSIVE KeyOrder(_)
KeyOrder(S) == IF S = {} THEN <<>> ELSE <<Min(S)>> \o KeyOrder(S \ {Min(S)})

\* store.getAll(): every record, in key order
getAll(store) ==
    LET keys == KeyOrder(DOMAIN store)
    IN  [i \in 1..Len(keys) |-> store[keys[i]]]

addOverwrite(store, data) ==
    [ok |-> TRUE,
     store |-> [k \in DOMAIN store \cup {data.id} |->
                   IF k = data.id THEN data ELSE store[k]]]

\* store.add(data): ConstraintError on an existing key, the store untouched
add(store, data) ==
    IF data.id \in DOMAIN store
    THEN [ok |-> FALSE, store |-> store]
    ELSE [ok |-> TRUE,
          store |-> [k \in DOMAIN store \cup {data.id} |->
                        IF k = data.id THEN data ELSE store[k]]]

\* store.put(data): insert or overwrite
put(store, data) ==
    [k \in DOMAIN store \cup {data.id} |-> IF k = data.id THEN data ELSE store[k]]

\* store.delete(id): succeeds whether or not the key is present
delete(store, id) == [k \in DOMAIN store \ {id} |-> store[k]]

\* store.clear()
clearAll(store) == EmptyStore

-----------------------------------------------------------------------------
(* MedTrackStorage: the methods built from the primitives.  Each takes the *)
(* database and returns the database it leaves.                            *)

\* the loop of deletePerson: delete every listed medication of person id
RECURSIVE deleteMedsOf(_, _, _)
deleteMedsOf(store, meds, id) ==
    IF meds = <<>> THEN store
    ELSE LET med == Head(meds)
         IN  deleteMedsOf(IF med.personId = id THEN delete(store, med.id) ELSE store,
                          Tail(meds), id)

\* a delete of the person that empties the medications store
deletePersonAllMedications(d, id) ==
    [d EXCEPT !.people = delete(@, id), !.medications = clearAll(@)]

deletePersonNoCascade(d, id) == [d EXCEPT !.people = delete(@, id)]

deletePerson(d, id) ==
    LET d1 == [d EXCEPT !.people = delete(@, id)]
        meds == getAll(d1.medications)
    IN  [d1 EXCEPT !.medications = deleteMedsOf(@, meds, id)]

deleteMedication(d, id) == [d EXCEPT !.medications = delete(@, id)]

updateMedication(d, medication) == [d EXCEPT !.medications = put(@, medication)]

deleteDoseLogKeep(d, id) == d

deleteDoseLog(d, id) == [d EXCEPT !.doseLogs = delete(@, id)]

clearAllData(d) ==
    [d EXCEPT !.people = clearAll(@), !.medications = clearAll(@),
              !.doseLogs = clearAll(@)]

exportDataNoLogs(d) ==
    Doc(getAll(d.people), getAll(d.medications), <<>>, {})

exportData(d) ==
    Doc(getAll(d.people), getAll(d.medications), getAll(d.doseLogs), {})

\* a for-of loop of awaited add() calls: stops at the first rejected add
RECURSIVE addEach(_, _)
addEach(store, recs) ==
    IF recs = <<>> THEN [ok |-> TRUE, store |-> store]
    ELSE LET r == add(store, Head(recs))
         IN  IF r.ok THEN addEach(r.store, Tail(recs)) ELSE r

\* the three loops of importData: `for (... of undefined)` throws a TypeError,
\* a rejected add() a ConstraintError, and what was written before the throw
\* stays written
importInto(c, data) ==
    IF ~Has(data, "people") THEN [err |-> "TypeError", db |-> c]
    ELSE
    LET rp == addEach(c.people, data.people)
        c1 == [c EXCEPT !.people = rp.store]
    IN  IF ~rp.ok THEN [err |-> "ConstraintError", db |-> c1]
        ELSE IF ~Has(data, "medications") THEN [err |-> "TypeError", db |-> c1]
        ELSE
        LET rm == addEach(c1.medications, data.medications)
            c2 == [c1 EXCEPT !.medications = rm.store]
        IN  IF ~rm.ok THEN [err |-> "ConstraintError", db |-> c2]
            ELSE IF ~Has(data, "doseLogs") THEN [err |-> "ok", db |-> c2]
            ELSE
            LET rl == addEach(c2.doseLogs, data.doseLogs)
                c3 == [c2 EXCEPT !.doseLogs = rl.store]
            IN  [err |-> IF rl.ok THEN "ok" ELSE "ConstraintError", db |-> c3]

importDataNoClear(d, data) == importInto(d, data)

\* importData: the three clears, then the loops
importData(d, data) ==
    importInto([d EXCEPT !.people = clearAll(@), !.medications = clearAll(@),
                         !.doseLogs = clearAll(@)], data)

-----------------------------------------------------------------------------
(* MedTrackApp: render()                                                   *)

SeqToSet(q) == {q[i] : i \in 1..Len(q)}

\* the first element of q that satisfies Test, as a sequence of length <= 1
Find(q, Test(_)) ==
    LET hit == SelectSeq(q, Test) IN IF hit = <<>> THEN <<>> ELSE <<Head(hit)>>

NoTime == "null"

EmptyDom == [pills |-> {}, delPerson |-> {}, cards |-> {}, boxes |-> {},
             counts |-> {}, logBtns |-> {}, removeBtns |-> {}, day |-> 0]

\* every timestamp read as the same calendar day
dateOfEpoch(timestamp) == 0

\* new Date(timestamp).toDateString(): the calendar day of a timestamp, which
\* like the clock is in minutes
dateOf(timestamp) == timestamp \div (24 * 60)

\* todayLogs of renderMedications, rendered at time t
todayLogs(logs, medId, t) ==
    SelectSeq(logs, LAMBDA log :
        log.medicationId = medId /\ dateOf(log.timestamp) = dateOf(t))

\* getLogsForDate(date): the stored logs of that calendar day
getLogsForDate(d, date) ==
    SelectSeq(getAll(d.doseLogs), LAMBDA log : dateOf(log.timestamp) = dateOf(date))

\* the elements render() creates, each with what its listener closes over
Render(ppl, meds, logs, cur, t) ==
    LET currentMeds == {m \in SeqToSet(meds) : m.personId = cur}
        scheduled == {m \in currentMeds : m.frequency # "asneeded"}
        asneeded == {m \in currentMeds : m.frequency = "asneeded"}
        matchingLog(m, time) ==
            Find(todayLogs(logs, m.id, t), LAMBDA log : log.scheduledTime = time)
        box(m, time) ==
            [medId |-> m.id, time |-> time,
             checked |-> matchingLog(m, time) # <<>>,
             logId |-> IF matchingLog(m, time) = <<>> THEN NoLog
                       ELSE matchingLog(m, time)[1].id]
    IN  [pills |-> {p.id : p \in SeqToSet(ppl)},
         delPerson |-> IF Len(ppl) > 1 THEN {p.id : p \in SeqToSet(ppl)} ELSE {},
         cards |-> {m.id : m \in currentMeds},
         boxes |-> UNION {{box(m, m.times[j]) : j \in 1..Len(m.times)} : m \in scheduled},
         counts |-> {[medId |-> m.id, taken |-> Len(todayLogs(logs, m.id, t)),
                      of |-> Len(m.times)] : m \in scheduled},
         logBtns |-> {m.id : m \in asneeded},
         removeBtns |-> UNION {{l.id : l \in SeqToSet(todayLogs(logs, m.id, t))} : m \in asneeded},
         day |-> dateOf(t)]

-----------------------------------------------------------------------------
(* History kept for the properties *)

NoDoc == Doc(<<>>, <<>>, <<>>, {})
Op(name, id, key, doc) == [op |-> name, id |-> id, key |-> key, doc |-> doc]

\* number of people, medications and dose logs in the database
Count(d) ==
    Cardinality(DOMAIN d.people) + Cardinality(DOMAIN d.medications)
        + Cardinality(DOMAIN d.doseLogs)

\* one more event, within the budget
Event == ops < MaxOps /\ ops' = ops + 1

Hist(name, id, key, doc, res) ==
    /\ lastOp' = Op(name, id, key, doc)
    /\ result' = res
    /\ prevCount' = Count(idb)
    /\ repeat' = (lastOp = Op(name, id, key, doc))

cache == <<people, medications, doseLogs, currentPersonId, dom>>

-----------------------------------------------------------------------------
(* The backup reminder's clock                                             *)

\* times are counted in minutes; Date.now() of a running browser is positive
Minute == 1
thirtyDaysInMs == 30 * 24 * 60 * Minute
StartTime == 1

\* how far the clock moves between two events
Steps == {Minute, thirtyDaysInMs}

\* the clock moves at most MaxTicks times
MaxTicks == 4

\* getSetting(key): the stored record's value, or undefined (the empty tuple)
getSetting(settings, key) ==
    IF key \in DOMAIN settings THEN <<settings[key].value>> ELSE <<>>

\* updateSetting(key, value): a put
updateSetting(d, key, value) == [d EXCEPT !.settings = put(@, Setting(key, value))]

\* JavaScript truth of a setting read by getSetting: a boolean, a number
TruthyFlag(v) == Len(v) > 0 /\ v[1]
TruthyTime(v) == Len(v) > 0 /\ v[1] # 0

-----------------------------------------------------------------------------
(* Dates and recurrence rules                                              *)

\* A Date is the number of its local calendar day, day 0 being Sunday
\* 1 January 2023; a timestamp is in minutes since that day's midnight.
BaseYear == 2023
MinutesPerDay == 24 * 60 * Minute

\* dates given to the evaluation are the days 0..MaxDay
MaxDay == 125

\* new Date(timestamp) with setHours(0, 0, 0, 0)
DayOf(timestamp) == timestamp \div MinutesPerDay

\* new Date(year, month + 1, 0).getDate()
LastDay(year, month) ==
    IF month \in {3, 5, 8, 10} THEN 30
    ELSE IF month # 1 THEN 31
    ELSE IF year % 4 = 0 /\ (year % 100 # 0 \/ year % 400 = 0) THEN 29
    ELSE 28

RECURSIVE Calendar(_, _, _)
Calendar(year, month, t) ==
    IF t < LastDay(year, month)
    THEN [year |-> year, month |-> month, day |-> t + 1]
    ELSE Calendar(IF month = 11 THEN year + 1 ELSE year, (month + 1) % 12,
                  t - LastDay(year, month))

getFullYear(t) == Calendar(BaseYear, 0, t).year
getMonth(t) == Calendar(BaseYear, 0, t).month
getDate(t) == Calendar(BaseYear, 0, t).day
getDay(t) == t % 7

\* a % b of JavaScript for integers: the sign of the dividend
JsRem(a, b) == IF a >= 0 THEN a % b ELSE 0 - ((0 - a) % b)

\* Math.round(a / b) for b > 0: halves go up
Round(a, b) == (2 * a + b) \div (2 * b)
Floor(a, b) == a \div b

\* Math.ceil(a / b) for b > 0
Ceil(a, b) == (a + b - 1) \div b

Abs(a) == IF a < 0 THEN 0 - a ELSE a
Smaller(a, b) == IF a < b THEN a ELSE b

includes(days, d) == \E i \in 1..Len(days) : days[i] = d

\* a recurrence object and a medication as read from the store; `absent`
\* names the fields the object does not have
Rec(type, days, n, anchor, mode, dayOfMonth, week, dow, absent) ==
    [type |-> type, days |-> days, n |-> n, anchor |-> anchor, mode |-> mode,
     dayOfMonth |-> dayOfMonth, week |-> week, dow |-> dow, absent |-> absent]
NoRec == Rec("", <<>>, 0, 0, "", 0, 0, 0, {})
Med(frequency, times, days, createdAt, recurrence, absent) ==
    [frequency |-> frequency, times |-> times, days |-> days,
     createdAt |-> createdAt, recurrence |-> recurrence, absent |-> absent]

HasField(obj, field) == field \notin obj.absent

\* rec.anchor || med.createdAt || Date.now(), `today` being the current day
anchorOf(m, today) ==
    LET rec == m.recurrence IN
    IF HasField(rec, "anchor") /\ rec.anchor # 0 THEN rec.anchor
    ELSE IF HasField(m, "createdAt") /\ m.createdAt # 0 THEN m.createdAt
    ELSE today * MinutesPerDay

\* setDate(getDate() - ((getDay() + 6) % 7)): back to Monday
mondayOf(t) == t - ((getDay(t) + 6) % 7)

\* targetMonday - anchorMonday: two local midnights, `shift` apart from whole
\* days when a clock change lies between them
midnightDiff(targetMonday, anchorMonday, shift) ==
    (targetMonday - anchorMonday) * MinutesPerDay
        + (IF targetMonday = anchorMonday THEN 0 ELSE shift)

\* the difference in whole weeks, rounded down
weeksDiffFloor(targetMonday, anchorMonday, shift) ==
    Floor(midnightDiff(targetMonday, anchorMonday, shift), 7 * MinutesPerDay)

\* Math.round((targetMonday - anchorMonday) / (7 * 86400000))
weeksDiff(targetMonday, anchorMonday, shift) ==
    Round(midnightDiff(targetMonday, anchorMonday, shift), 7 * MinutesPerDay)

\* the legacy branch: a bare days array and no recurrence
legacyScheduledOn(m, d) ==
    IF ~HasField(m, "days") \/ Len(m.days) = 0 THEN TRUE
    ELSE includes(m.days, getDay(d))

\* a weekly rule that ignores its days
weeklyAlways(rec, d) == TRUE

\* the weekly branch
weeklyScheduledOn(rec, d) ==
    IF ~HasField(rec, "days") \/ Len(rec.days) = 0 THEN TRUE
    ELSE includes(rec.days, getDay(d))

\* the everyNWeeks branch
everyNWeeksScheduledOn(m, d, shift, today) ==
    LET rec == m.recurrence IN
    IF ~HasField(rec, "days") \/ ~includes(rec.days, getDay(d)) THEN FALSE
    ELSE LET anchor == DayOf(anchorOf(m, today))
             w == weeksDiff(mondayOf(d), mondayOf(anchor), shift)
         IN  HasField(rec, "n") /\ rec.n # 0 /\ JsRem(w, rec.n) = 0

\* a window that wraps from the last day of a month to its first
monthlyDateWraps(rec, d) ==
    LET lastDay == LastDay(getFullYear(d), getMonth(d))
        effective == Smaller(rec.dayOfMonth, lastDay)
        gap == Abs(getDate(d) - effective)
    IN  gap <= 1 \/ gap = lastDay - 1

\* the monthly branch, mode 'date'
monthlyDateScheduledOn(rec, d) ==
    LET lastDay == LastDay(getFullYear(d), getMonth(d))
        effective == Smaller(rec.dayOfMonth, lastDay)
    IN  Abs(getDate(d) - effective) <= 1

\* `last` read as the fourth occurrence
monthlyWeekdayFourth(rec, d) ==
    getDay(d) = rec.dow /\ Ceil(getDate(d), 7) = (IF rec.week = -1 THEN 4 ELSE rec.week)

\* the monthly branch, mode 'weekday'
monthlyWeekdayScheduledOn(rec, d) ==
    IF getDay(d) # rec.dow THEN FALSE
    ELSE IF rec.week = -1 THEN getMonth(d + 7) # getMonth(d)
    ELSE Ceil(getDate(d), 7) = rec.week

\* isScheduledOn(med, date), called on the day `today`
isScheduledOn(m, d, shift, today) ==
    LET rec == m.recurrence IN
    IF ~HasField(m, "recurrence") THEN legacyScheduledOn(m, d)
    ELSE IF rec.type = "daily" THEN TRUE
    ELSE IF rec.type = "weekly" THEN weeklyScheduledOn(rec, d)
    ELSE IF rec.type = "everyNWeeks" THEN everyNWeeksScheduledOn(m, d, shift, today)
    ELSE IF rec.type = "monthly" /\ HasField(rec, "mode") /\ rec.mode = "date"
         THEN monthlyDateScheduledOn(rec, d)
    ELSE IF rec.type = "monthly" /\ HasField(rec, "mode") /\ rec.mode = "weekday"
         THEN monthlyWeekdayScheduledOn(rec, d)
    ELSE FALSE

\* the scan of renderMedications looks this many days ahead
Horizon == 60

\* the first i in from..Horizon with today + i scheduled, or 0
RECURSIVE scanFrom(_, _, _, _)
scanFrom(m, today, shift, i) ==
    IF i > Horizon THEN 0
    ELSE IF isScheduledOn(m, today + i, shift, today) THEN i
    ELSE scanFrom(m, today, shift, i + 1)

\* a scan that starts the day after tomorrow
nextScheduledLate(m, today, shift) == scanFrom(m, today, shift, 2)

\* for (let i = 1; i <= 60; i++) ... break
nextScheduled(m, today, shift) == scanFrom(m, today, shift, 1)

dayNames == <<"Sun", "Mon", "Tue", "Wed", "Thu", "Fri", "Sat">>
ordinals == <<"", "First", "Second", "Third", "Fourth", "Last">>

\* nextLabel: 'Tomorrow', a day name, or month and day; '' when i is 0
NextLabel(text, month, day) == [text |-> text, month |-> month, day |-> day]
nextLabel(today, i) ==
    IF i = 0 THEN NextLabel("", 0, 0)
    ELSE IF i = 1 THEN NextLabel("Tomorrow", 0, 0)
    ELSE IF i <= 6 THEN NextLabel(dayNames[getDay(today + i) + 1], 0, 0)
    ELSE NextLabel("", getMonth(today + i) + 1, getDate(today + i))

\* [...days].sort((a, b) => a - b)
RECURSIVE insert(_, _)
insert(sorted, x) ==
    IF sorted = <<>> THEN <<x>>
    ELSE IF x < Head(sorted) THEN <<x>> \o sorted
    ELSE <<Head(sorted)>> \o insert(Tail(sorted), x)

RECURSIVE sort(_)
sort(days) == IF days = <<>> THEN <<>> ELSE insert(sort(Tail(days)), Head(days))

namesOf(days) == [i \in 1..Len(days) |-> dayNames[days[i] + 1]]

\* ordinal(n): n and its suffix
ordinal(n) ==
    LET s == <<"th", "st", "nd", "rd">>
        v == JsRem(n, 100)
        a == JsRem(v - 20, 10)
    IN  <<n, IF a \in 1..3 THEN s[a + 1]
             ELSE IF v \in 1..3 THEN s[v + 1]
             ELSE s[1]>>

\* the text of a card's schedule line: the number of times, the words, a
\* number with its suffix, the day names
Label(count, text, n, suffix, names) ==
    [count |-> count, text |-> text, n |-> n, suffix |-> suffix, names |-> names]

\* the legacy text without the sort
legacyTextUnsorted(tx, m) ==
    IF ~HasField(m, "days") \/ Len(m.days) = 0 \/ Len(m.days) = 7
    THEN Label(tx, "daily", 0, "", <<>>)
    ELSE IF m.days = <<1, 2, 3, 4, 5>> THEN Label(tx, "weekdays", 0, "", <<>>)
    ELSE IF m.days = <<0, 6>> THEN Label(tx, "weekends", 0, "", <<>>)
    ELSE Label(tx, "days", 0, "", namesOf(m.days))

\* the legacy branch: a bare days array
legacyText(tx, m) ==
    IF ~HasField(m, "days") \/ Len(m.days) = 0 \/ Len(m.days) = 7
    THEN Label(tx, "daily", 0, "", <<>>)
    ELSE LET sorted == sort(m.days) IN
         IF sorted = <<1, 2, 3, 4, 5>> THEN Label(tx, "weekdays", 0, "", <<>>)
         ELSE IF sorted = <<0, 6>> THEN Label(tx, "weekends", 0, "", <<>>)
         ELSE Label(tx, "days", 0, "", namesOf(sorted))

\* the weekly branch
weeklyText(tx, rec) ==
    IF ~HasField(rec, "days") \/ Len(rec.days) = 0 \/ Len(rec.days) = 7
    THEN Label(tx, "daily", 0, "", <<>>)
    ELSE LET sorted == sort(rec.days) IN
         IF sorted = <<1, 2, 3, 4, 5>> THEN Label(tx, "weekdays", 0, "", <<>>)
         ELSE IF sorted = <<0, 6>> THEN Label(tx, "weekends", 0, "", <<>>)
         ELSE Label(tx, "days", 0, "", namesOf(sorted))

\* getRecurrenceText(med)
getRecurrenceText(m) ==
    LET rec == m.recurrence
        timeCount == IF HasField(m, "times") /\ Len(m.times) > 0 THEN Len(m.times) ELSE 1
    IN  IF m.frequency = "asneeded" THEN Label(0, "As needed", 0, "", <<>>)
        ELSE IF ~HasField(m, "recurrence") THEN legacyText(timeCount, m)
        ELSE IF rec.type = "daily" THEN Label(timeCount, "daily", 0, "", <<>>)
        ELSE IF rec.type = "weekly" THEN weeklyText(timeCount, rec)
        ELSE IF rec.type = "everyNWeeks"
             THEN Label(timeCount, "every n wks", rec.n, "",
                        IF HasField(rec, "days") /\ Len(rec.days) > 0
                        THEN namesOf(sort(rec.days)) ELSE <<"-">>)
        ELSE IF rec.type = "monthly" /\ HasField(rec, "mode") /\ rec.mode = "date"
             THEN Label(timeCount, "monthly", ordinal(rec.dayOfMonth)[1],
                        ordinal(rec.dayOfMonth)[2], <<>>)
        ELSE IF rec.type = "monthly" /\ HasField(rec, "mode") /\ rec.mode = "weekday"
             THEN Label(timeCount, "monthly",
                        IF rec.week \in {-1} \cup (1..5) THEN 0 ELSE rec.week,
                        IF rec.week = -1 THEN "Last"
                        ELSE IF rec.week \in 1..5 THEN ordinals[rec.week + 1]
                        ELSE ".",
                        <<dayNames[rec.dow + 1]>>)
        ELSE Label(timeCount, "scheduled", 0, "", <<>>)

\* rec.days.sort(...) of the everyNWeeks branch sorts the stored array in place
afterRecurrenceText(m) ==
    LET rec == m.recurrence IN
    IF /\ m.frequency # "asneeded" /\ HasField(m, "recurrence")
       /\ rec.type = "everyNWeeks" /\ HasField(rec, "days") /\ Len(rec.days) > 0
    THEN [m EXCEPT !.recurrence.days = sort(@)]
    ELSE m

\* what the evaluation is given
DayLists ==
    { <<>>, <<1>>, <<1, 3, 5>>, <<5, 1, 3>>, <<1, 2, 3, 4, 5>>, <<0, 6>>,
      <<0, 1, 2, 3, 4, 5, 6>> }
Anchors == {1 * MinutesPerDay + 600, 67 * MinutesPerDay + 1439}
Created == 30 * MinutesPerDay + 5
Shifts == {0 - 60 * Minute, 0, 60 * Minute}

Scheduled(days, recurrence, absent) ==
    Med("scheduled", <<"08:00", "20:00">>, days, Created, recurrence, absent)
Weekly(days, absent) == Rec("weekly", days, 0, 0, "", 0, 0, 0, absent)
EveryNWeeks(n, days, anchor, absent) ==
    Rec("everyNWeeks", days, n, anchor, "", 0, 0, 0, absent)
MonthlyByDate(k) == Rec("monthly", <<>>, 0, 0, "date", k, 0, 0, {})
MonthlyByWeekday(week, dow) == Rec("monthly", <<>>, 0, 0, "weekday", 0, week, dow, {})

LegacyMeds ==
    {Scheduled(D, NoRec, {"recurrence"}) : D \in DayLists}
        \cup {Scheduled(<<>>, NoRec, {"recurrence", "days"})}
WeeklyMeds ==
    {Scheduled(<<>>, Weekly(D, {}), {"days"}) : D \in DayLists}
        \cup {Scheduled(<<>>, Weekly(<<>>, {"days"}), {"days"})}
EveryNWeeksMeds ==
    {Scheduled(<<>>, EveryNWeeks(n, D, a, {}), {"days"}) :
        n \in {1, 2, 10}, D \in {<<1>>, <<5, 1>>}, a \in Anchors}
        \cup { Scheduled(<<>>, EveryNWeeks(2, <<1>>, 0, {"anchor"}), {"days"}),
               Med("scheduled", <<"08:00">>, <<>>, 0,
                   EveryNWeeks(2, <<1>>, 0, {"anchor"}), {"days", "createdAt"}),
               Scheduled(<<>>, EveryNWeeks(2, <<>>, 1 * MinutesPerDay, {"days"}), {"days"}) }
MonthlyMeds ==
    {Scheduled(<<>>, MonthlyByDate(k), {"days"}) : k \in {1, 15, 30, 31}}
        \cup {Scheduled(<<>>, MonthlyByWeekday(w, d), {"days"}) :
                w \in {-1, 1, 2, 3, 4, 5}, d \in {0, 5}}
UnknownMeds ==
    { Scheduled(<<>>, Rec("yearly", <<>>, 0, 0, "", 0, 0, 0, {}), {"days"}),
      Scheduled(<<>>, Rec("monthly", <<>>, 0, 0, "lunar", 1, 0, 0, {}), {"days"}),
      Scheduled(<<>>, Rec("monthly", <<>>, 0, 0, "", 1, 0, 0, {"mode"}), {"days"}) }
Meds ==
    LegacyMeds \cup WeeklyMeds \cup EveryNWeeksMeds \cup MonthlyMeds \cup UnknownMeds
        \cup { Scheduled(<<>>, Rec("daily", <<>>, 0, 0, "", 0, 0, 0, {}), {"days"}),
               Med("asneeded", <<>>, <<>>, Created, NoRec, {"recurrence", "days"}) }

\* what an evaluation returned
NoLabel == Label(0, "", 0, "", <<>>)
Out(op, due, next, label, text) ==
    [op |-> op, due |-> due, next |-> next, label |-> label, text |-> text]
NoOut == Out("", FALSE, 0, NextLabel("", 0, 0), NoLabel)

-----------------------------------------------------------------------------
(* Start-up: MedTrackApp.init() and loadData()                             *)

Constructed ==
    /\ db = FALSE
    /\ idb = EmptyDb
    /\ pc = "new"
    /\ pending = <<>>
    /\ people = <<>>
    /\ medications = <<>>
    /\ doseLogs = <<>>
    /\ currentPersonId = Null
    /\ dom = EmptyDom
    /\ nextId = 0
    /\ ops = 0
    /\ emptyAtInit = FALSE
    /\ lastOp = Op("new", 0, "", NoDoc)
    /\ result = "ok"
    /\ prevCount = 0
    /\ repeat = FALSE

\* no reminder is pending; nothing has been evaluated
ClockIdle == now = StartTime /\ reminder = FALSE
SchedIdle ==
    /\ argMed = Scheduled(<<>>, NoRec, {"recurrence", "days"})
    /\ argDate = 0
    /\ dst = 0
    /\ out = NoOut

Init == Constructed /\ ClockIdle /\ SchedIdle

\* storage.init() resolves; the listeners are attached; loadData() issues
\* getPeople() and waits
InitStorage ==
    /\ pc = "new"
    /\ db' = TRUE
    /\ pc' = "getPeople"
    /\ pending' = getAll(idb.people)
    /\ emptyAtInit' = (DOMAIN idb.people = {})
    /\ ops' = ops
    /\ Hist("init", 0, "", NoDoc, "ok")
    /\ UNCHANGED <<idb, cache, nextId>>
    /\ UNCHANGED <<clock, sched>>

LoadPeople ==
    /\ pc = "getPeople"
    /\ people' = pending
    /\ pending' = getAll(idb.medications)
    /\ pc' = "getMedications"
    /\ ops' = ops
    /\ Hist("init", 0, "", NoDoc, "ok")
    /\ UNCHANGED <<db, idb, medications, doseLogs, currentPersonId, dom, nextId, emptyAtInit>>
    /\ UNCHANGED <<clock, sched>>

LoadMedications ==
    /\ pc = "getMedications"
    /\ medications' = pending
    /\ pending' = getAll(idb.doseLogs)
    /\ pc' = "getDoseLogs"
    /\ ops' = ops
    /\ Hist("init", 0, "", NoDoc, "ok")
    /\ UNCHANGED <<db, idb, people, doseLogs, currentPersonId, dom, nextId, emptyAtInit>>
    /\ UNCHANGED <<clock, sched>>

LoadDoseLogs ==
    /\ pc = "getDoseLogs"
    /\ doseLogs' = pending
    /\ pending' = <<>>
    /\ pc' = "getSetting"
    /\ ops' = ops
    /\ Hist("init", 0, "", NoDoc, "ok")
    /\ UNCHANGED <<db, idb, people, medications, currentPersonId, dom, nextId, emptyAtInit>>
    /\ UNCHANGED <<clock, sched>>

\* after getSetting('hasSeenWelcome'): the default person is added when the
\* list read earlier is empty, else loadData() returns and init() renders
LoadDefaultPerson ==
    /\ pc = "getSetting"
    /\ IF Len(people) = 0
       THEN /\ LET defaultPerson == Person(nextId + 1, "Me")
                   r == add(idb.people, defaultPerson)
               IN  /\ r.ok
                   /\ idb' = [idb EXCEPT !.people = r.store]
                   /\ pending' = <<defaultPerson>>
            /\ nextId' = nextId + 1
            /\ pc' = "addPerson"
            /\ UNCHANGED cache
       ELSE /\ currentPersonId' = people[1].id
            /\ dom' = Render(people, medications, doseLogs, people[1].id, now)
            /\ pc' = "done"
            /\ UNCHANGED <<idb, pending, nextId, people, medications, doseLogs>>
    /\ ops' = ops
    /\ Hist("init", 0, "", NoDoc, "ok")
    /\ UNCHANGED <<db, emptyAtInit>>
    /\ UNCHANGED <<clock, sched>>

LoadFinish ==
    /\ pc = "addPerson"
    /\ people' = Append(people, pending[1])
    /\ currentPersonId' = people'[1].id
    /\ dom' = Render(people', medications, doseLogs, people'[1].id, now)
    /\ pending' = <<>>
    /\ pc' = "done"
    /\ ops' = ops
    /\ Hist("init", 0, "", NoDoc, "ok")
    /\ UNCHANGED <<db, idb, medications, doseLogs, nextId, emptyAtInit>>
    /\ UNCHANGED <<clock, sched>>

\* the page is reloaded: a new MedTrackApp over the same database
Reload ==
    /\ Event
    /\ pc # "new"
    /\ db' = FALSE
    /\ pc' = "new"
    /\ pending' = <<>>
    /\ people' = <<>>
    /\ medications' = <<>>
    /\ doseLogs' = <<>>
    /\ currentPersonId' = Null
    /\ dom' = EmptyDom
    /\ emptyAtInit' = FALSE
    /\ Hist("new", 0, "", NoDoc, "ok")
    /\ UNCHANGED <<idb, nextId>>
    /\ UNCHANGED <<clock, sched>>

-----------------------------------------------------------------------------
(* Handlers: each runs from its event to its render()                      *)

Listening == pc # "new"

FirstId(ppl) == IF Len(ppl) > 0 THEN ppl[1].id ELSE Null

HandleAddPerson(name) ==
    /\ Event
    /\ Listening
    /\ LET person == Person(nextId + 1, name)
           r == add(idb.people, person)
       IN  /\ r.ok
           /\ idb' = [idb EXCEPT !.people = r.store]
           /\ people' = Append(people, person)
           /\ currentPersonId' = person.id
           /\ dom' = Render(people', medications, doseLogs, person.id, now)
           /\ Hist("addPerson", person.id, "", NoDoc, "ok")
    /\ nextId' = nextId + 1
    /\ UNCHANGED <<db, pc, pending, medications, doseLogs, emptyAtInit>>
    /\ UNCHANGED <<clock, sched>>

\* click on a person pill
SelectPerson(id) ==
    /\ Event
    /\ id \in dom.pills
    /\ id # currentPersonId
    /\ currentPersonId' = id
    /\ dom' = Render(people, medications, doseLogs, id, now)
    /\ Hist("selectPerson", id, "", NoDoc, "ok")
    /\ UNCHANGED <<db, idb, pc, pending, people, medications, doseLogs, nextId,
                   emptyAtInit>>
    /\ UNCHANGED <<clock, sched>>

\* click on a pill's delete button, confirmed
DeletePersonClick(id) ==
    /\ Event
    /\ id \in dom.delPerson
    /\ idb' = deletePerson(idb, id)
    /\ people' = SelectSeq(people, LAMBDA p : p.id # id)
    /\ currentPersonId' = IF currentPersonId = id THEN FirstId(people') ELSE currentPersonId
    /\ medications' = getAll(idb'.medications)
    /\ dom' = Render(people', medications', doseLogs, currentPersonId', now)
    /\ Hist("deletePerson", id, "", NoDoc, "ok")
    /\ UNCHANGED <<db, pc, pending, doseLogs, nextId, emptyAtInit>>
    /\ UNCHANGED <<clock, sched>>

\* submit of the medication form with the edit id empty
HandleAddMedication(form) ==
    /\ Event
    /\ Listening
    /\ currentPersonId # Null
    /\ LET medication == Medication(nextId + 1, currentPersonId, form.frequency, form.times)
           r == add(idb.medications, medication)
       IN  /\ r.ok
           /\ idb' = [idb EXCEPT !.medications = r.store]
           /\ medications' = Append(medications, medication)
           /\ dom' = Render(people, medications', doseLogs, currentPersonId, now)
           /\ Hist("addMedication", medication.id, "", NoDoc, "ok")
    /\ nextId' = nextId + 1
    /\ UNCHANGED <<db, pc, pending, people, doseLogs, currentPersonId, emptyAtInit>>
    /\ UNCHANGED <<clock, sched>>

\* a card's edit button, then submit of the form: the cached record is
\* changed in place and put
HandleEditMedication(id, form) ==
    /\ Event
    /\ id \in dom.cards
    /\ currentPersonId # Null
    /\ \E i \in 1..Len(medications) :
        /\ medications[i].id = id
        /\ \A j \in 1..(i - 1) : medications[j].id # id
        /\ LET existing == [medications[i] EXCEPT !.frequency = form.frequency,
                                                  !.times = form.times]
           IN  /\ idb' = updateMedication(idb, existing)
               /\ medications' = [medications EXCEPT ![i] = existing]
    /\ dom' = Render(people, medications', doseLogs, currentPersonId, now)
    /\ Hist("updateMedication", id, "", NoDoc, "ok")
    /\ UNCHANGED <<db, pc, pending, people, doseLogs, currentPersonId, nextId, emptyAtInit>>
    /\ UNCHANGED <<clock, sched>>

\* a card's delete button, confirmed
DeleteMedicationClick(id) ==
    /\ Event
    /\ id \in dom.cards
    /\ idb' = deleteMedication(idb, id)
    /\ medications' = SelectSeq(medications, LAMBDA m : m.id # id)
    /\ dom' = Render(people, medications', doseLogs, currentPersonId, now)
    /\ Hist("deleteMedication", id, "", NoDoc, "ok")
    /\ UNCHANGED <<db, pc, pending, people, doseLogs, currentPersonId, nextId, emptyAtInit>>
    /\ UNCHANGED <<clock, sched>>

\* change event of a dose checkbox: an unchecked box becomes checked and a
\* log is added, a checked box becomes unchecked and its log is deleted
HandleDoseToggle(box) ==
    /\ Event
    /\ box \in dom.boxes
    /\ IF ~box.checked
       THEN /\ LET doseLog == DoseLog(nextId + 1, box.medId, box.time, now)
                   r == add(idb.doseLogs, doseLog)
               IN  /\ r.ok
                   /\ idb' = [idb EXCEPT !.doseLogs = r.store]
                   /\ doseLogs' = Append(doseLogs, doseLog)
                   /\ Hist("addDoseLog", doseLog.id, "checkbox", NoDoc, "ok")
            /\ nextId' = nextId + 1
       ELSE /\ box.logId # NoLog
            /\ idb' = deleteDoseLog(idb, box.logId)
            /\ doseLogs' = SelectSeq(doseLogs, LAMBDA log : log.id # box.logId)
            /\ Hist("deleteDoseLog", box.logId, "checkbox", NoDoc, "ok")
            /\ UNCHANGED nextId
    /\ dom' = Render(people, medications, doseLogs', currentPersonId, now)
    /\ UNCHANGED <<db, pc, pending, people, medications, currentPersonId, emptyAtInit>>
    /\ UNCHANGED <<clock, sched>>

\* "Log Dose Taken" of an as-needed medication
LogAsNeededDose(medId) ==
    /\ Event
    /\ medId \in dom.logBtns
    /\ LET doseLog == DoseLog(nextId + 1, medId, NoTime, now)
           r == add(idb.doseLogs, doseLog)
       IN  /\ r.ok
           /\ idb' = [idb EXCEPT !.doseLogs = r.store]
           /\ doseLogs' = Append(doseLogs, doseLog)
           /\ Hist("addDoseLog", doseLog.id, "", NoDoc, "ok")
    /\ nextId' = nextId + 1
    /\ dom' = Render(people, medications, doseLogs', currentPersonId, now)
    /\ UNCHANGED <<db, pc, pending, people, medications, currentPersonId, emptyAtInit>>
    /\ UNCHANGED <<clock, sched>>

\* the remove button of an as-needed dose
RemoveDoseClick(logId) ==
    /\ Event
    /\ logId \in dom.removeBtns
    /\ idb' = deleteDoseLog(idb, logId)
    /\ doseLogs' = SelectSeq(doseLogs, LAMBDA log : log.id # logId)
    /\ dom' = Render(people, medications, doseLogs', currentPersonId, now)
    /\ Hist("deleteDoseLog", logId, "button", NoDoc, "ok")
    /\ UNCHANGED <<db, pc, pending, people, medications, currentPersonId, nextId, emptyAtInit>>
    /\ UNCHANGED <<clock, sched>>

\* reader.onload of handleImport: a throw inside the try leaves the fields
\* and the DOM as they were
HandleImport(data) ==
    /\ Event
    /\ Listening
    /\ LET r == importData(idb, data)
       IN  /\ idb' = r.db
           /\ Hist("importData", 0, "", data, r.err)
           /\ IF r.err = "ok"
              THEN /\ people' = getAll(r.db.people)
                   /\ medications' = getAll(r.db.medications)
                   /\ doseLogs' = getAll(r.db.doseLogs)
                   /\ currentPersonId' = FirstId(people')
                   /\ dom' = Render(people', medications', doseLogs', currentPersonId', now)
              ELSE UNCHANGED cache
    /\ UNCHANGED <<db, pc, pending, nextId, emptyAtInit>>
    /\ UNCHANGED <<clock, sched>>

\* handleResetApp, both confirmations given
HandleResetApp ==
    /\ Event
    /\ Listening
    /\ LET defaultPerson == Person(nextId + 1, "Me")
           c == clearAllData(idb)
           r == add(c.people, defaultPerson)
       IN  /\ r.ok
           /\ idb' = [c EXCEPT !.people = r.store]
           /\ people' = <<defaultPerson>>
           /\ medications' = <<>>
           /\ doseLogs' = <<>>
           /\ currentPersonId' = defaultPerson.id
           /\ dom' = Render(people', medications', doseLogs', defaultPerson.id, now)
           /\ Hist("reset", 0, "", NoDoc, "ok")
    /\ nextId' = nextId + 1
    /\ UNCHANGED <<db, pc, pending, emptyAtInit>>
    /\ UNCHANGED <<clock, sched>>

\* the welcome modal's button: updateSetting (a put)
UpdateSetting(key, value) ==
    /\ Event
    /\ Listening
    /\ idb' = [idb EXCEPT !.settings = put(@, Setting(key, value))]
    /\ Hist("updateSetting", 0, key, NoDoc, "ok")
    /\ UNCHANGED <<db, pc, pending, cache, nextId, emptyAtInit>>
    /\ UNCHANGED <<clock, sched>>

-----------------------------------------------------------------------------
(* Calls of MedTrackStorage methods by a caller other than the handlers    *)

\* saveSetting(key, value): an add
SaveSetting(key, value) ==
    /\ Event
    /\ IF ~db
       THEN /\ Hist("saveSetting", 0, key, NoDoc, "NotInitialized")
            /\ UNCHANGED idb
       ELSE LET r == add(idb.settings, Setting(key, value))
            IN  /\ idb' = [idb EXCEPT !.settings = r.store]
                /\ Hist("saveSetting", 0, key, NoDoc,
                        IF r.ok THEN "ok" ELSE "ConstraintError")
    /\ UNCHANGED <<db, pc, pending, cache, nextId, emptyAtInit>>
    /\ UNCHANGED <<clock, sched>>

\* deleteDoseLog(id), for the key of a log in the store or the key just deleted
LogKeys == DOMAIN idb.doseLogs \cup (IF lastOp.op = "deleteDoseLog" THEN {lastOp.id} ELSE {})

DeleteDoseLogCall(id) ==
    /\ Event
    /\ id \in LogKeys
    /\ IF ~db
       THEN /\ Hist("deleteDoseLog", id, "", NoDoc, "NotInitialized")
            /\ UNCHANGED idb
       ELSE /\ idb' = deleteDoseLog(idb, id)
            /\ Hist("deleteDoseLog", id, "", NoDoc, "ok")
    /\ UNCHANGED <<db, pc, pending, cache, nextId, emptyAtInit>>
    /\ UNCHANGED <<clock, sched>>

\* getAll(storeName) with its guard: rejected while this.db is null
getAllChecked(open, store) ==
    IF ~open THEN [err |-> "NotInitialized", value |-> <<>>]
    ELSE [err |-> "ok", value |-> getAll(store)]

\* getDoseLogs(): getAll('doseLogs') in a try whose catch returns []
getDoseLogs(open, store) ==
    LET logs == getAllChecked(open, store) IN
    IF logs.err # "ok" THEN [err |-> "ok", value |-> <<>>] ELSE logs

StoreNames == {"people", "medications", "doseLogs"}

\* getPeople(), getMedications(), getDoseLogs()
ListCall(storeName) ==
    /\ Event
    /\ LET r == IF storeName = "doseLogs"
                THEN getDoseLogs(db, idb.doseLogs)
                ELSE getAllChecked(db, idb[storeName])
       IN  Hist("list", 0, storeName, NoDoc, r.err)
    /\ UNCHANGED <<db, idb, pc, pending, cache, nextId, emptyAtInit>>
    /\ UNCHANGED <<clock, sched>>

\* getSetting(key)
GetSettingCall(key) ==
    /\ Event
    /\ Hist("getSetting", 0, key, NoDoc, IF ~db THEN "NotInitialized" ELSE "ok")
    /\ UNCHANGED <<db, idb, pc, pending, cache, nextId, emptyAtInit>>
    /\ UNCHANGED <<clock, sched>>

\* clearAllData()
ClearAllDataCall ==
    /\ Event
    /\ IF ~db
       THEN /\ Hist("clearAllData", 0, "", NoDoc, "NotInitialized")
            /\ UNCHANGED idb
       ELSE /\ idb' = clearAllData(idb)
            /\ Hist("clearAllData", 0, "", NoDoc, "ok")
    /\ UNCHANGED <<db, pc, pending, cache, nextId, emptyAtInit>>
    /\ UNCHANGED <<clock, sched>>

\* importData(await exportData())
RoundTrip ==
    /\ Event
    /\ IF ~db
       THEN /\ Hist("roundTrip", 0, "", NoDoc, "NotInitialized")
            /\ UNCHANGED idb
       ELSE LET r == importData(idb, exportData(idb))
            IN  /\ idb' = r.db
                /\ Hist("roundTrip", 0, "", NoDoc, r.err)
    /\ UNCHANGED <<db, pc, pending, cache, nextId, emptyAtInit>>
    /\ UNCHANGED <<clock, sched>>

-----------------------------------------------------------------------------

Next ==
    \/ InitStorage
    \/ LoadPeople
    \/ LoadMedications
    \/ LoadDoseLogs
    \/ LoadDefaultPerson
    \/ LoadFinish
    \/ Reload
    \/ \E name \in Names : HandleAddPerson(name)
    \/ \E id \in dom.pills : SelectPerson(id)
    \/ \E id \in dom.delPerson : DeletePersonClick(id)
    \/ \E form \in FormInputs : HandleAddMedication(form)
    \/ \E id \in dom.cards, form \in FormInputs : HandleEditMedication(id, form)
    \/ \E id \in dom.cards : DeleteMedicationClick(id)
    \/ \E box \in dom.boxes : HandleDoseToggle(box)
    \/ \E medId \in dom.logBtns : LogAsNeededDose(medId)
    \/ \E logId \in dom.removeBtns : RemoveDoseClick(logId)
    \/ \E data \in Snapshots : HandleImport(data)
    \/ HandleResetApp
    \/ \E key \in SettingKeys : UpdateSetting(key, TRUE)
    \/ \E key \in SettingKeys, value \in BOOLEAN : SaveSetting(key, value)
    \/ \E id \in LogKeys : DeleteDoseLogCall(id)
    \/ RoundTrip
    \/ \E storeName \in StoreNames : ListCall(storeName)
    \/ \E key \in SettingKeys : GetSettingCall(key)
    \/ ClearAllDataCall

Spec == Init /\ [][Next]_vars

-----------------------------------------------------------------------------
(* The backup reminder: checkBackupReminder(), handleExport() and the      *)
(* settings toggle, over the settings store and the clock                  *)

\* a reminder that is due from the 30th day on
reminderDueFrom30(settings, t) ==
    LET backupReminderEnabled == getSetting(settings, "backupReminder")
        lastReminder == getSetting(settings, "lastBackupReminder")
    IN  /\ TruthyFlag(backupReminderEnabled)
        /\ (~TruthyTime(lastReminder) \/ t - lastReminder[1] >= thirtyDaysInMs)

\* checkBackupReminder(): whether the confirm() dialog is scheduled
reminderDue(settings, t) ==
    LET backupReminderEnabled == getSetting(settings, "backupReminder") IN
    IF ~TruthyFlag(backupReminderEnabled) THEN FALSE
    ELSE LET lastReminder == getSetting(settings, "lastBackupReminder")
         IN  ~TruthyTime(lastReminder) \/ t - lastReminder[1] > thirtyDaysInMs

\* the two updateSetting calls that end handleExport()
markBackup(d, t) ==
    updateSetting(updateSetting(d, "lastBackup", t), "lastBackupReminder", t)

\* a snooze that also moves lastBackup
snoozeBoth(d, t) == markBackup(d, t)

\* the else branch of the confirm(): snooze
snooze(d, t) == updateSetting(d, "lastBackupReminder", t)

\* the state once init() has finished on a first run
Started ==
    /\ db = TRUE
    /\ idb = [EmptyDb EXCEPT !.people = add(@, Person(1, "Me")).store]
    /\ pc = "done"
    /\ pending = <<>>
    /\ people = <<Person(1, "Me")>>
    /\ medications = <<>>
    /\ doseLogs = <<>>
    /\ currentPersonId = 1
    /\ dom = Render(<<Person(1, "Me")>>, <<>>, <<>>, 1, StartTime)
    /\ nextId = 1
    /\ ops = 0
    /\ emptyAtInit = TRUE
    /\ lastOp = Op("init", 0, "", NoDoc)
    /\ result = "ok"
    /\ prevCount = 0
    /\ repeat = FALSE

InitBackup == Started /\ ClockIdle /\ SchedIdle

frozen == <<db, pc, pending, cache, nextId, emptyAtInit>>

\* time passes
Tick(d) ==
    /\ ops < MaxTicks
    /\ ops' = ops + 1
    /\ now' = now + d
    /\ Hist("tick", 0, "", NoDoc, "ok")
    /\ UNCHANGED <<idb, reminder, frozen, sched>>

\* the settings toggle is switched: backupReminder is put, and when it was
\* switched on lastBackupReminder is put after it
ToggleBackupReminder(checked) ==
    /\ idb' = IF checked
              THEN updateSetting(updateSetting(idb, "backupReminder", checked),
                                 "lastBackupReminder", now)
              ELSE updateSetting(idb, "backupReminder", checked)
    /\ Hist("toggle", 0, "", NoDoc, "ok")
    /\ UNCHANGED <<ops, now, reminder, frozen, sched>>

\* the toggle is switched on and the page is closed between the two puts
ToggleCutShort ==
    /\ idb' = updateSetting(idb, "backupReminder", TRUE)
    /\ reminder' = FALSE
    /\ Hist("toggle", 0, "", NoDoc, "ok")
    /\ UNCHANGED <<ops, now, frozen, sched>>

\* a page load reaches checkBackupReminder()
CheckBackupReminder ==
    /\ reminder' = reminderDue(idb.settings, now)
    /\ Hist("checkBackupReminder", 0, "", NoDoc, "ok")
    /\ UNCHANGED <<ops, idb, now, frozen, sched>>

\* handleExport(), from the settings modal
HandleExport ==
    /\ idb' = markBackup(idb, now)
    /\ Hist("handleExport", 0, "", exportData(idb), "ok")
    /\ UNCHANGED <<ops, now, reminder, frozen, sched>>

\* the reminder's confirm() is answered OK: handleExport()
ConfirmBackup ==
    /\ reminder
    /\ reminder' = FALSE
    /\ idb' = markBackup(idb, now)
    /\ Hist("handleExport", 0, "", exportData(idb), "ok")
    /\ UNCHANGED <<ops, now, frozen, sched>>

\* the reminder's confirm() is cancelled: snooze
SnoozeBackup ==
    /\ reminder
    /\ reminder' = FALSE
    /\ idb' = snooze(idb, now)
    /\ Hist("snooze", 0, "", NoDoc, "ok")
    /\ UNCHANGED <<ops, now, frozen, sched>>

NextBackup ==
    \/ \E d \in Steps : Tick(d)
    \/ \E checked \in BOOLEAN : ToggleBackupReminder(checked)
    \/ ToggleCutShort
    \/ CheckBackupReminder
    \/ HandleExport
    \/ ConfirmBackup
    \/ SnoozeBackup

SpecBackup == InitBackup /\ [][NextBackup]_vars

-----------------------------------------------------------------------------
(* Recurrence: isScheduledOn(), the next-day scan of renderMedications()   *)
(* and getRecurrenceText(), applied to a medication and a date             *)

InitRecurrence ==
    /\ Started
    /\ ClockIdle
    /\ argMed \in Meds
    /\ argDate \in 0..MaxDay
    /\ dst \in Shifts
    /\ out = NoOut

\* isScheduledOn(med, today)
IsScheduledOn ==
    /\ out' = Out("isScheduledOn", isScheduledOn(argMed, argDate, dst, argDate),
                  0, NextLabel("", 0, 0), NoLabel)
    /\ UNCHANGED <<app, clock, argMed, argDate, dst>>

\* the card of a scheduled medication that is not scheduled today: the scan
\* for the next scheduled day
NextScheduled ==
    /\ argMed.frequency # "asneeded"
    /\ ~isScheduledOn(argMed, argDate, dst, argDate)
    /\ LET i == nextScheduled(argMed, argDate, dst)
       IN  out' = Out("nextScheduled", FALSE, i, nextLabel(argDate, i), NoLabel)
    /\ UNCHANGED <<app, clock, argMed, argDate, dst>>

\* getRecurrenceText(med)
RecurrenceText ==
    /\ out' = Out("getRecurrenceText", FALSE, 0, NextLabel("", 0, 0),
                  getRecurrenceText(argMed))
    /\ argMed' = afterRecurrenceText(argMed)
    /\ UNCHANGED <<app, clock, argDate, dst>>

NextRecurrence ==
    \/ IsScheduledOn
    \/ NextScheduled
    \/ RecurrenceText

SpecRecurrence == InitRecurrence /\ [][NextRecurrence]_vars

-----------------------------------------------------------------------------
(* Dose tracking over several days, with handleDoseToggle() split at its   *)
(* await: a change event may arrive while an earlier one is still waiting  *)
(* for its storage request                                                 *)

\* the clock moves on by at most MaxDays days
MaxDays == 1

\* what the medication form submits when the times are edited
DoseForms == { [frequency |-> "scheduled", times |-> <<"08:00">>] }

\* the app after a first run and the add of one scheduled medication
InitDoses ==
    /\ db = TRUE
    /\ idb = [EmptyDb EXCEPT
                !.people = add(@, Person(1, "Me")).store,
                !.medications =
                    add(@, Medication(2, 1, "scheduled", <<"08:00", "20:00">>)).store]
    /\ pc = "done"
    /\ pending = <<>>
    /\ people = <<Person(1, "Me")>>
    /\ medications = <<Medication(2, 1, "scheduled", <<"08:00", "20:00">>)>>
    /\ doseLogs = <<>>
    /\ currentPersonId = 1
    /\ dom = Render(people, medications, doseLogs, 1, StartTime)
    /\ nextId = 2
    /\ ops = 0
    /\ emptyAtInit = TRUE
    /\ lastOp = Op("addMedication", 2, "", NoDoc)
    /\ result = "ok"
    /\ prevCount = 1
    /\ repeat = FALSE
    /\ ClockIdle
    /\ SchedIdle

\* a handler waiting at its await: what it does to this.doseLogs afterwards
Waiting(op, log) == [op |-> op, log |-> log]

\* change event of a dose checkbox, up to the await.  The browser has flipped
\* the box; the handler reads checked, data-time and data-log-id from it.  An
\* unchecked box without a log id has nothing to await and renders at once.
CheckboxChange(box) ==
    /\ Event
    /\ box \in dom.boxes
    /\ LET flipped == [dom EXCEPT !.boxes =
                          (@ \ {box}) \cup {[box EXCEPT !.checked = ~box.checked]}]
       IN  IF ~box.checked
           THEN LET doseLog == DoseLog(nextId + 1, box.medId, box.time, now)
                    r == add(idb.doseLogs, doseLog)
                IN  /\ r.ok
                    /\ idb' = [idb EXCEPT !.doseLogs = r.store]
                    /\ pending' = Append(pending, Waiting("push", doseLog))
                    /\ nextId' = nextId + 1
                    /\ dom' = flipped
                    /\ Hist("check", box.medId, box.time, NoDoc, "ok")
           ELSE IF box.logId # NoLog
           THEN /\ idb' = deleteDoseLog(idb, box.logId)
                /\ pending' = Append(pending,
                                Waiting("filter", DoseLog(box.logId, box.medId, box.time, 0)))
                /\ dom' = flipped
                /\ Hist("uncheck", box.medId, box.time, NoDoc, "ok")
                /\ UNCHANGED nextId
           ELSE /\ dom' = Render(people, medications, doseLogs, currentPersonId, now)
                /\ Hist("unchecked", box.medId, box.time, NoDoc, "ok")
                /\ UNCHANGED <<idb, pending, nextId>>
    /\ UNCHANGED <<db, pc, people, medications, doseLogs, currentPersonId, emptyAtInit>>
    /\ UNCHANGED <<clock, sched>>

\* the oldest storage request resolves: its handler changes this.doseLogs
\* and calls render()
AwaitDone ==
    /\ pending # <<>>
    /\ LET h == Head(pending)
       IN  /\ doseLogs' = IF h.op = "push" THEN Append(doseLogs, h.log)
                          ELSE SelectSeq(doseLogs, LAMBDA log : log.id # h.log.id)
           /\ Hist(IF h.op = "push" THEN "checked" ELSE "unchecked",
                   h.log.medicationId, h.log.scheduledTime, NoDoc, "ok")
    /\ pending' = Tail(pending)
    /\ dom' = Render(people, medications, doseLogs', currentPersonId, now)
    /\ UNCHANGED <<db, idb, pc, people, medications, currentPersonId, nextId, ops,
                   emptyAtInit>>
    /\ UNCHANGED <<clock, sched>>

\* midnight passes; nothing is rendered
NextDay ==
    /\ dateOf(now) < MaxDays
    /\ now' = now + 24 * 60
    /\ Hist("nextDay", 0, "", NoDoc, "ok")
    /\ UNCHANGED <<db, idb, pc, pending, cache, nextId, ops, emptyAtInit, reminder>>
    /\ UNCHANGED sched

\* click on a person pill, the current person's included: render()
PillClick(id) ==
    /\ Event
    /\ id \in dom.pills
    /\ currentPersonId' = id
    /\ dom' = Render(people, medications, doseLogs, id, now)
    /\ Hist("selectPerson", id, "", NoDoc, "ok")
    /\ UNCHANGED <<db, idb, pc, pending, people, medications, doseLogs, nextId,
                   emptyAtInit>>
    /\ UNCHANGED <<clock, sched>>

NextDoses ==
    \/ \E box \in dom.boxes : CheckboxChange(box)
    \/ AwaitDone
    \/ NextDay
    \/ \E id \in dom.pills : PillClick(id)
    \/ \E id \in dom.cards, form \in DoseForms : HandleEditMedication(id, form)

SpecDoses == InitDoses /\ [][NextDoses]_vars

-----------------------------------------------------------------------------
(* Properties *)

Data(d) == <<d.people, d.medications, d.doseLogs>>

\* C1: after deletePerson(id) has run to completion the person id is gone and
\* no medication in the store has personId = id
C1_DeletePersonCascades ==
    lastOp.op = "deletePerson" =>
        /\ lastOp.id \notin DOMAIN idb.people
        /\ \A k \in DOMAIN idb.medications : idb.medications[k].personId # lastOp.id

\* a person was deleted together with at least one medication
C1_Witness ==
    /\ lastOp.op = "deletePerson"
    /\ result = "ok"
    /\ prevCount - Count(idb) >= 2

\* C2: after deleteMedication(id) has run to completion no dose log in the
\* store has medicationId = id
C2_DeleteMedicationCascades ==
    lastOp.op = "deleteMedication" =>
        \A k \in DOMAIN idb.doseLogs : idb.doseLogs[k].medicationId # lastOp.id

\* C3: once start-up has completed, every medication in the store has the
\* personId of a person in the store
C3_PersonIdReferencesPerson ==
    pc = "done" =>
        \A k \in DOMAIN idb.medications :
            idb.medications[k].personId \in DOMAIN idb.people

\* C4: an import of a document without `people` or without `medications` is
\* rejected and leaves the three collections as they were
C4_MalformedImportChangesNothing ==
    [][(lastOp'.op = "importData"
            /\ (~Has(lastOp'.doc, "people") \/ ~Has(lastOp'.doc, "medications")))
        => (result' # "ok" /\ Data(idb') = Data(idb))]_vars

\* C5: importData(exportData()) leaves people, medications and doseLogs with
\* the same records, each medication's times in the same order
C5_RoundTrip ==
    [][(lastOp'.op = "roundTrip" /\ db)
        => (result' = "ok" /\ Data(idb') = Data(idb))]_vars

\* a round trip over a database holding a person, a dose log and a medication
\* with two times
C5_Witness ==
    /\ lastOp.op = "roundTrip"
    /\ result = "ok"
    /\ DOMAIN idb.people # {}
    /\ DOMAIN idb.doseLogs # {}
    /\ \E k \in DOMAIN idb.medications : Len(idb.medications[k].times) = 2

\* the records of an array of a document, as a store
Ids(recs) == {recs[i].id : i \in 1..Len(recs)}
AsStore(recs) == [k \in Ids(recs) |-> CHOOSE r \in SeqToSet(recs) : r.id = k]
NoDuplicateIds(recs) == \A i, j \in 1..Len(recs) : recs[i].id = recs[j].id => i = j
Logs(doc) == IF Has(doc, "doseLogs") THEN doc.doseLogs ELSE <<>>
Exactly(d, doc) ==
    /\ d.people = AsStore(doc.people)
    /\ d.medications = AsStore(doc.medications)
    /\ d.doseLogs = AsStore(Logs(doc))

\* C6 as stated: after an import of a document that has people and
\* medications the three collections hold exactly the document's records
C6_ImportExact ==
    (lastOp.op = "importData" /\ Has(lastOp.doc, "people")
        /\ Has(lastOp.doc, "medications"))
    => (Exactly(idb, lastOp.doc)
        /\ Count(idb) = Len(lastOp.doc.people) + Len(lastOp.doc.medications)
                            + Len(Logs(lastOp.doc)))

\* C6 amended: the same, for a document in which no two records of one array
\* share an id; the import then succeeds
C6_ImportExactUniqueIds ==
    (lastOp.op = "importData" /\ Has(lastOp.doc, "people")
        /\ Has(lastOp.doc, "medications")
        /\ NoDuplicateIds(lastOp.doc.people)
        /\ NoDuplicateIds(lastOp.doc.medications)
        /\ NoDuplicateIds(Logs(lastOp.doc)))
    => (result = "ok" /\ Exactly(idb, lastOp.doc))

\* an import without doseLogs succeeded over a database that held more
\* records than the document has
C6_Witness ==
    /\ lastOp.op = "importData"
    /\ result = "ok"
    /\ ~Has(lastOp.doc, "doseLogs")
    /\ Len(lastOp.doc.people) > 0
    /\ prevCount > Count(idb)

\* C7: once start-up has completed the people store is never empty
C7_AtLeastOnePerson == pc = "done" => DOMAIN idb.people # {}

\* C8: when the people store is empty at start-up, no handler runs before
\* the default person is persisted, and start-up ends with a person named
\* "Me" in the store
C8_DefaultPersonBeforeCallers ==
    /\ (emptyAtInit /\ lastOp.op \notin {"new", "init"})
            => pc \in {"addPerson", "done"}
    /\ (emptyAtInit /\ pc = "done" /\ lastOp.op = "init")
            => \E k \in DOMAIN idb.people : idb.people[k].name = "Me"

\* the first record of recs with key k
FirstWithId(recs, k) == Find(recs, LAMBDA r : r.id = k)[1]
KeepsFirst(store, recs) == \A k \in DOMAIN store : store[k] = FirstWithId(recs, k)

\* C9: an add with a key the store already holds is rejected and changes
\* nothing: saveSetting on an existing key fails and leaves the database as
\* it was, and an import whose array repeats a key (addPerson, addMedication,
\* addDoseLog) fails and leaves the first record under that key
C9_AddRejectsDuplicateKey ==
    [][/\ (lastOp'.op = "saveSetting" /\ db /\ lastOp'.key \in DOMAIN idb.settings)
            => (result' = "ConstraintError" /\ idb' = idb)
       /\ (lastOp'.op = "importData" /\ Has(lastOp'.doc, "people")
                /\ Has(lastOp'.doc, "medications")
                /\ ~(/\ NoDuplicateIds(lastOp'.doc.people)
                     /\ NoDuplicateIds(lastOp'.doc.medications)
                     /\ NoDuplicateIds(Logs(lastOp'.doc))))
            => /\ result' = "ConstraintError"
               /\ KeepsFirst(idb'.people, lastOp'.doc.people)
               /\ KeepsFirst(idb'.medications, lastOp'.doc.medications)
               /\ KeepsFirst(idb'.doseLogs, Logs(lastOp'.doc))]_vars

\* saveSetting was rejected for a key the settings store holds
C9_Witness ==
    /\ lastOp.op = "saveSetting"
    /\ result = "ConstraintError"
    /\ lastOp.key \in DOMAIN idb.settings

\* C10: deleteDoseLog(id) succeeds and leaves no log under id; on a key that
\* is absent, and so on the second of two calls in a row, it changes nothing
C10_UnlogIdempotent ==
    [][(lastOp'.op = "deleteDoseLog" /\ db)
        => /\ result' = "ok"
           /\ lastOp'.id \notin DOMAIN idb'.doseLogs
           /\ \A k \in DOMAIN idb.doseLogs \ {lastOp'.id} :
                k \in DOMAIN idb'.doseLogs /\ idb'.doseLogs[k] = idb.doseLogs[k]
           /\ (lastOp'.id \notin DOMAIN idb.doseLogs \/ repeat') => idb' = idb]_vars

\* deleteDoseLog ran twice in a row with the same id and succeeded
C10_Witness ==
    /\ lastOp.op = "deleteDoseLog"
    /\ repeat
    /\ result = "ok"

\* C11: a storage operation called while storage.init() has not resolved is
\* rejected with the NotInitialized error
C11_NotInitializedBeforeSetup ==
    [][(~db /\ lastOp'.op \in {"list", "getSetting", "clearAllData", "saveSetting",
                               "deleteDoseLog", "roundTrip"})
        => result' = "NotInitialized"]_vars

\* the settings a property reads: a key's stored value, and whether it is set
IsSet(d, key) == key \in DOMAIN d.settings
ValueOf(d, key) == d.settings[key].value
OtherSettingsKept(d, e, keys) ==
    /\ DOMAIN e.settings = DOMAIN d.settings \cup keys
    /\ \A k \in DOMAIN d.settings \ keys : e.settings[k] = d.settings[k]

\* C12: checkBackupReminder raises the reminder exactly when backupReminder is
\* true and lastBackupReminder is unset or more than 30 days before now
C12_ReminderDue ==
    [][lastOp'.op = "checkBackupReminder" =>
        (reminder' <=>
            /\ IsSet(idb, "backupReminder") /\ ValueOf(idb, "backupReminder") = TRUE
            /\ \/ ~IsSet(idb, "lastBackupReminder")
               \/ now - ValueOf(idb, "lastBackupReminder") > 30 * MinutesPerDay)]_vars

\* the reminder was raised more than 30 days after the last one
C12_Witness ==
    /\ lastOp.op = "checkBackupReminder"
    /\ reminder
    /\ IsSet(idb, "lastBackupReminder")
    /\ now - ValueOf(idb, "lastBackupReminder") = 30 * MinutesPerDay + Minute

\* the check ran exactly 30 days after the last reminder and raised nothing
C12_WitnessAtThirty ==
    /\ lastOp.op = "checkBackupReminder"
    /\ ~reminder
    /\ IsSet(idb, "backupReminder") /\ ValueOf(idb, "backupReminder") = TRUE
    /\ now - ValueOf(idb, "lastBackupReminder") = 30 * MinutesPerDay

\* C13: a backup sets lastBackup and lastBackupReminder to now; a snooze sets
\* lastBackupReminder to now and leaves lastBackup, backupReminder, every other
\* setting and the three collections as they were
C13_BackupAndSnooze ==
    [][/\ lastOp'.op = "handleExport" =>
            /\ ValueOf(idb', "lastBackup") = now
            /\ ValueOf(idb', "lastBackupReminder") = now
            /\ OtherSettingsKept(idb, idb', {"lastBackup", "lastBackupReminder"})
            /\ Data(idb') = Data(idb)
       /\ lastOp'.op = "snooze" =>
            /\ ValueOf(idb', "lastBackupReminder") = now
            /\ OtherSettingsKept(idb, idb', {"lastBackupReminder"})
            /\ Data(idb') = Data(idb)]_vars

\* a reminder was snoozed at a time later than the last backup
C13_Witness ==
    /\ lastOp.op = "snooze"
    /\ IsSet(idb, "lastBackup")
    /\ ValueOf(idb, "lastBackupReminder") = now
    /\ ValueOf(idb, "lastBackup") < now

\* what the recurrence properties read: the rule evaluated, its day set, the
\* calendar of the date evaluated
Evaluated == out.op = "isScheduledOn"
RuleIs(type) == HasField(argMed, "recurrence") /\ argMed.recurrence.type = type
DaySet(days) == {days[i] : i \in 1..Len(days)}
DayOfWeek(t) == t % 7
DayOfMonth(t) == getDate(t)
DaysInMonth(t) == LastDay(getFullYear(t), getMonth(t))
MonthOf(t) == {u \in (t - 31)..(t + 31) : u >= 0 /\ u - DayOfMonth(u) = t - DayOfMonth(t)}
Due(m, t) == isScheduledOn(m, t, dst, argDate)

\* C14: a Weekly{days} medication is due on a date iff days is empty or the
\* date's day of week is in days; for days {1,3,5} iff the day is 1, 3 or 5
C14_WeeklyDue ==
    (Evaluated /\ RuleIs("weekly")) =>
        LET days == DaySet(argMed.recurrence.days) IN
        /\ out.due <=> (days = {} \/ DayOfWeek(argDate) \in days)
        /\ days = {1, 3, 5} => (out.due <=> DayOfWeek(argDate) \in {1, 3, 5})

\* a Weekly{1,3,5} medication was evaluated on a Wednesday and is due
C14_Witness ==
    /\ Evaluated /\ RuleIs("weekly")
    /\ argMed.recurrence.days = <<5, 1, 3>>
    /\ DayOfWeek(argDate) = 3
    /\ out.due

\* the number of the Monday-to-Sunday week a day lies in
WeekOf(t) == (t + 6) \div 7
HasAnchor == HasField(argMed.recurrence, "anchor") /\ argMed.recurrence.anchor # 0

\* C15: an EveryNWeeks{n, days, anchor} medication is due on a date iff the
\* date's day of week is in days and the date's week is a multiple of n weeks
\* from the anchor's week, before and after the anchor
C15_EveryNWeeksDue ==
    (Evaluated /\ RuleIs("everyNWeeks") /\ HasAnchor /\ argMed.recurrence.n >= 1) =>
        LET rec == argMed.recurrence
            weeks == WeekOf(argDate) - WeekOf(rec.anchor \div MinutesPerDay)
        IN  out.due <=> /\ DayOfWeek(argDate) \in DaySet(rec.days)
                        /\ weeks % rec.n = 0

\* n = 2, days {1}, anchored on the Monday of week 1: the Monday two weeks
\* later is due, across a clock change
C15_Witness ==
    /\ Evaluated /\ RuleIs("everyNWeeks")
    /\ argMed.recurrence.n = 2 /\ argMed.recurrence.days = <<1>>
    /\ argMed.recurrence.anchor \div MinutesPerDay = 1
    /\ argDate = 15
    /\ dst < 0
    /\ out.due

\* n = 2, anchored in week 10: a Monday four weeks before the anchor is due
C15_WitnessBefore ==
    /\ Evaluated /\ RuleIs("everyNWeeks")
    /\ argMed.recurrence.n = 2
    /\ WeekOf(argMed.recurrence.anchor \div MinutesPerDay) - WeekOf(argDate) = 4
    /\ out.due

RuleIsMonthly(mode) ==
    RuleIs("monthly") /\ HasField(argMed.recurrence, "mode") /\ argMed.recurrence.mode = mode

\* C16: a Monthly.ByDate{k} medication is due iff the day of the month is
\* within 1 of min(k, days in the month); for k = 31 in a 30-day month the
\* 29th and 30th are due and the 1st of the next month is not
C16_MonthlyByDateDue ==
    (Evaluated /\ RuleIsMonthly("date")) =>
        LET k == argMed.recurrence.dayOfMonth
            target == IF k < DaysInMonth(argDate) THEN k ELSE DaysInMonth(argDate)
        IN  /\ out.due <=> (DayOfMonth(argDate) - target \in {-1, 0, 1})
            /\ (k = 31 /\ argDate \in {118, 119}) => out.due
            /\ (k = 31 /\ argDate = 120) => ~out.due

\* k = 31 was evaluated on 29 April and is due
C16_Witness ==
    /\ Evaluated /\ RuleIsMonthly("date")
    /\ argMed.recurrence.dayOfMonth = 31
    /\ getMonth(argDate) = 3 /\ getDate(argDate) = 29
    /\ out.due

\* C17: with week = -1 exactly one date of every month is due, the last date
\* of the month that falls on dow; with week in 1..4 a date is due iff it
\* falls on dow and is the week-th such day of its month
C17_MonthlyByWeekdayDue ==
    (Evaluated /\ RuleIsMonthly("weekday")) =>
        LET rec == argMed.recurrence
            onDow == {t \in MonthOf(argDate) : DayOfWeek(t) = rec.dow}
            last == CHOOSE t \in onDow : \A u \in onDow : u <= t
        IN  /\ rec.week = -1 =>
                /\ out.due <=> argDate = last
                /\ {t \in MonthOf(argDate) : Due(argMed, t)} = {last}
            /\ rec.week \in 1..4 =>
                (out.due <=> /\ argDate \in onDow
                             /\ Cardinality({t \in onDow : t <= argDate}) = rec.week)

\* the last Friday of a month with five Fridays: 31 March, due
C17_Witness ==
    /\ Evaluated /\ RuleIsMonthly("weekday")
    /\ argMed.recurrence.week = -1 /\ argMed.recurrence.dow = 5
    /\ getMonth(argDate) = 2 /\ getDate(argDate) = 31
    /\ out.due

\* a legacy medication (a bare days array, no recurrence) and the medication
\* that carries the same days as Weekly{days}, or Daily when it has none
IsLegacy == ~HasField(argMed, "recurrence")
Migrated(m) ==
    [m EXCEPT !.days = <<>>,
              !.absent = {"days"},
              !.recurrence = IF HasField(m, "days") /\ Len(m.days) > 0
                             THEN Weekly(m.days, {})
                             ELSE Rec("daily", <<>>, 0, 0, "", 0, 0, 0, {})]
Described == out.op = "getRecurrenceText"

\* C18: a legacy medication with days D is due on the same dates and gets the
\* same text as one with recurrence Weekly{D} (Daily when D is absent or
\* empty); for D = [1,2,3,4,5] the text is "weekdays"
C18_LegacyEquivalence ==
    /\ (Evaluated /\ IsLegacy) => out.due = Due(Migrated(argMed), argDate)
    /\ (Described /\ IsLegacy) =>
            /\ out.text = getRecurrenceText(Migrated(argMed))
            /\ argMed.days = <<1, 2, 3, 4, 5>> => out.text.text = "weekdays"

\* a legacy medication with unsorted days {5,1,3} was described by day names
C18_Witness ==
    /\ Described /\ IsLegacy
    /\ argMed.days = <<5, 1, 3>>
    /\ out.text.names = <<"Mon", "Wed", "Fri">>

\* a legacy medication with days [1,2,3,4,5] was evaluated on a Saturday
C18_WitnessNotDue ==
    /\ Evaluated /\ IsLegacy
    /\ argMed.days = <<1, 2, 3, 4, 5>>
    /\ DayOfWeek(argDate) = 6
    /\ ~out.due

\* a recurrence of no known kind
UnknownKind ==
    /\ HasField(argMed, "recurrence")
    /\ argMed.recurrence.type \notin {"daily", "weekly", "everyNWeeks", "monthly"}
       \/ /\ argMed.recurrence.type = "monthly"
          /\ ~RuleIsMonthly("date") /\ ~RuleIsMonthly("weekday")

\* C19: a recurrence of no known kind is due on every date
C19_UnknownKindIsDaily == (Evaluated /\ UnknownKind) => out.due

\* C20: the scan returns the earliest of the 60 days after `from` that is
\* due, and nothing when none of them is due; never `from`, never later
C20_NextDueDate ==
    out.op = "nextScheduled" =>
        LET due == {i \in 1..60 : Due(argMed, argDate + i)} IN
        IF due = {} THEN out.next = 0
        ELSE /\ out.next \in due
             /\ \A i \in due : out.next <= i

\* the scan found a day more than a week ahead
C20_Witness ==
    /\ out.op = "nextScheduled"
    /\ out.next > 7
    /\ Due(argMed, argDate + out.next)

\* the scan found nothing in 60 days for a rule that has due dates
C20_WitnessNone ==
    /\ out.op = "nextScheduled"
    /\ out.next = 0
    /\ RuleIs("everyNWeeks") /\ argMed.recurrence.n = 10

\* the dose logs of a medication on the current day: in the store, in the list
LogsToday(d, medId) == todayLogs(getAll(d.doseLogs), medId, now)
CheckedBox == lastOp'.op = "addDoseLog" /\ lastOp'.key = "checkbox"
Listed(medId) ==
    \E m \in SeqToSet(medications) :
        m.id = medId /\ m.frequency = "scheduled" /\ m.personId = currentPersonId

\* C21: after a box of a scheduled medication of the current person's list
\* with no log today is checked, the medication's logs of today are exactly
\* one log with the box's time, and its count reads 1 over the number of its
\* times
C21_LogDose ==
    [][CheckedBox =>
        LET log == idb'.doseLogs[lastOp'.id]
            medId == log.medicationId
        IN  (/\ Listed(medId)
             /\ LogsToday(idb, medId) = <<>> /\ todayLogs(doseLogs, medId, now) = <<>>) =>
                /\ LogsToday(idb', medId) = <<log>>
                /\ \E box \in dom.boxes :
                      box.medId = medId /\ box.time = log.scheduledTime /\ ~box.checked
                /\ \E c \in dom'.counts, m \in SeqToSet(medications) :
                      /\ c.medId = medId /\ m.id = medId
                      /\ c.taken = 1 /\ c.of = Len(m.times)]_vars

\* the 08:00 box of a medication with times 20:00 and 08:00 was checked: 1/2
C21_Witness ==
    /\ pc = "done"
    /\ lastOp.op = "addDoseLog" /\ lastOp.key = "checkbox"
    /\ lastOp.id \in DOMAIN idb.doseLogs
    /\ idb.doseLogs[lastOp.id].scheduledTime = "08:00"
    /\ \E c \in dom.counts :
          c.medId = idb.doseLogs[lastOp.id].medicationId /\ c.taken = 1 /\ c.of = 2


\* the dose logs of the store, as a set
StoredLogs == { idb.doseLogs[id] : id \in DOMAIN idb.doseLogs }

\* C22: whatever the order in which dose toggles are delivered and complete,
\* a second one before the first has finished included, the doseLogs store
\* holds at most one log per medication, date and scheduled time.
C22_OneLogPerSlot ==
    \A a, b \in StoredLogs :
        (/\ a.medicationId = b.medicationId
         /\ a.scheduledTime = b.scheduledTime
         /\ a.timestamp \div (24 * 60) = b.timestamp \div (24 * 60)) => a.id = b.id


\* the step is a submit of the medication form, as an add or as an edit
SubmittedMedication == lastOp'.op \in {"addMedication", "updateMedication"}

\* C23: every medication stored by the add/edit form with frequency
\* "asneeded" is stored with an empty times array.
C23_AsNeededHasNoTimes ==
    [][SubmittedMedication =>
        \A id \in DOMAIN idb'.medications :
            (id = lastOp'.id /\ idb'.medications[id].frequency = "asneeded") =>
                idb'.medications[id].times = <<>>]_vars


\* C24: after a confirmed reset has completed, the medications, doseLogs and
\* settings stores are empty and the people store holds only the new default
\* person.
C24_ResetDeletesEverything ==
    lastOp.op = "reset" =>
        /\ DOMAIN idb.medications = {}
        /\ DOMAIN idb.doseLogs = {}
        /\ DOMAIN idb.settings = {}
        /\ \E id \in DOMAIN idb.people :
              DOMAIN idb.people = {id} /\ idb.people[id] = Person(id, "Me")


\* C25: getRecurrenceText(med) leaves the medication record as it was, the
\* order of recurrence.days and of the legacy days included, and a second
\* call on the record returns the same text.
C25_DescribeIsPure ==
    [][out'.op = "getRecurrenceText" =>
        /\ argMed' = argMed
        /\ getRecurrenceText(argMed') = out'.text]_vars


\* the calendar day of a time in minutes
Day(t) == t \div (24 * 60)

\* the step ends in render()
Rendered == lastOp'.op \in {"selectPerson", "checked", "unchecked", "updateMedication"}

\* the cached logs of a medication made on the day of time t
LogsOn(logs, medId, t) ==
    {i \in 1..Len(logs) : logs[i].medicationId = medId /\ Day(logs[i].timestamp) = Day(t)}

C27_UncheckedSlotHasNoLog ==
    lastOp.op = "unchecked" =>
        ~\E log \in StoredLogs :
            /\ log.medicationId = lastOp.id
            /\ log.scheduledTime = lastOp.key
            /\ Day(log.timestamp) = Day(now)


\* a cached list holds exactly the records of its store
SameRecords(list, store) ==
    /\ SeqToSet(list) = {store[id] : id \in DOMAIN store}
    /\ Len(list) = Cardinality(DOMAIN store)

Coherent(ppl, meds, logs, d) ==
    /\ SameRecords(ppl, d.people)
    /\ SameRecords(meds, d.medications)
    /\ SameRecords(logs, d.doseLogs)

\* the step is a whole handler of the page: an add, edit, delete, toggle,
\* import or reset
HandlerStep ==
    \/ lastOp'.op \in {"addPerson", "deletePerson", "addMedication", "updateMedication",
                       "deleteMedication", "addDoseLog", "importData", "reset"}
    \/ lastOp'.op = "deleteDoseLog" /\ lastOp'.key \in {"checkbox", "button"}

\* C28: a handler that starts with nothing in flight and the cached people,
\* medications and doseLogs equal to the stores ends with them equal to the
\* stores, also when its storage call fails.
C28_CacheCoherence ==
    [][(/\ pc = "done" /\ ops' = ops + 1 /\ HandlerStep
        /\ Coherent(people, medications, doseLogs, idb)) =>
            Coherent(people', medications', doseLogs', idb')]_vars


\* C29: in every state the ratio shown on the card of a scheduled medication
\* has a numerator, the number of today's logs, no greater than its
\* denominator, the number of times of the medication.
C29_RatioAtMostOne ==
    \A c \in dom.counts : c.taken <= c.of


\* the records of store s other than those with a key in gone are as before
Kept(s, t, gone) ==
    /\ DOMAIN t = DOMAIN s \ gone
    /\ \A id \in DOMAIN t : t[id] = s[id]

\* the medications of person id
MedicationsOf(d, id) == {m \in DOMAIN d.medications : d.medications[m].personId = id}

\* C30: a delete of person id removes person id and the medications of id
\* and nothing else, a delete of medication id removes that medication and
\* nothing else: every other person, every medication of another person and
\* all settings are as before.
C30_DeleteFrame ==
    [][/\ (lastOp'.op = "deletePerson" /\ ops' = ops + 1) =>
            /\ Kept(idb.people, idb'.people, {lastOp'.id})
            /\ Kept(idb.medications, idb'.medications, MedicationsOf(idb, lastOp'.id))
            /\ idb'.settings = idb.settings
       /\ (lastOp'.op = "deleteMedication" /\ ops' = ops + 1) =>
            /\ idb'.people = idb.people
            /\ Kept(idb.medications, idb'.medications, {lastOp'.id})
            /\ idb'.settings = idb.settings]_vars

\* a person was deleted while another person, with a medication, and a
\* setting were stored
C30_Witness ==
    /\ lastOp.op = "deletePerson"
    /\ lastOp.id \notin DOMAIN idb.people
    /\ DOMAIN idb.people # {}
    /\ \E m \in DOMAIN idb.medications : idb.medications[m].personId \in DOMAIN idb.people
    /\ DOMAIN idb.settings # {}

====
